---- MODULE Spec2Model ----
(***************************************************************************)
(* Central Bot API (src/app.py): the fleet registry, the per-device        *)
(* activity logs and the per-device command queues, with one action per    *)
(* HTTP handler.                                                           *)
(*                                                                         *)
(* Time is counted in ticks of 1/TicksPerSecond second.  A timestamp       *)
(* string (datetime.isoformat) is the pair of its whole seconds and its    *)
(* sub-second part; "Never" is the one-element tuple <<"Never">>.          *)
(* A Python dict whose iteration order the code uses (device_statuses) is  *)
(* a sequence of [key, value] entries in insertion order; the two other    *)
(* dicts are functions on the set of their keys.  The lists held by        *)
(* command_queues are objects with identity: command_queues maps a device  *)
(* to a reference and heap maps a reference to the list's content.         *)
(***************************************************************************)
EXTENDS Integers, Sequences, FiniteSets, TLC

VARIABLES
    clock,              \* datetime.now(), in ticks
    device_statuses,    \* src/app.py:24, ordered dict
    ma_keys,            \* src/app.py:24, the entries table of that dict
    command_queues,     \* src/app.py:25, device id -> reference of its list
    recent_activities,  \* src/app.py:26, device id -> list of entries
    heap,               \* the list objects of command_queues, by reference
    adder,              \* a request thread inside stop_device/add_command
    drainer,            \* a request thread inside get_pending_commands
    sent,               \* per device: add_command calls that have returned
    received,           \* per device: commands returned by drains so far
    walker,             \* a request thread inside emergency_stop_all
    evicted             \* per device: whether it was evicted; its log and queue then

vars == <<clock, device_statuses, ma_keys, command_queues, recent_activities, heap,
          adder, drainer, sent, received, walker, evicted>>

storage == <<device_statuses, ma_keys, command_queues, recent_activities, heap>>
requests == <<adder, drainer, sent, received, walker>>
threads == <<requests, evicted>>

----------------------------------------------------------------------------
(* Bounds of the model *)

TicksPerSecond == 2     \* clock ticks in a second
MaxEpochs == 1          \* ten-minute periods that pass
MaxPending == 1         \* Spec: commands waiting, all queues together
MaxLog == 1             \* Spec: entries logged, all logs together
MaxQueue == 2           \* SpecQueue: commands waiting in one queue
MaxBroadcast == 1       \* SpecFleet: broadcasts a device has not polled yet
MaxSent == 2            \* SpecConc: add_command calls per device
MaxLogTime == 52        \* SpecLog: ticks of the clock
MaxHistory == 2         \* SpecHist: entries in one device's log

(* Program constants *)

EvictMinutes == 10
SecondsPerMinute == 60
LogCap == 50
PreviewCap == 100
TopCount == 3
DictMinSize == 8        \* slots of the smallest dict table
DictGrowthRate == 3     \* a new table is sized for 3 times the keys

Devices == {"bot_1", "bot_2", "bot_3"}

----------------------------------------------------------------------------
(* Time *)

\* datetime.isoformat(): the string of a clock value
isoformat(t) == <<t \div TicksPerSecond, t % TicksPerSecond>>

\* datetime.fromisoformat(): the clock value of a timestamp string
fromisoformat(s) == s[1] * TicksPerSecond + s[2]

\* int(datetime.now().timestamp()): whole seconds
int_timestamp(t) == t \div TicksPerSecond

Never == <<"Never">>

\* Mutant of MinutesOfflineExceeds: ten minutes exactly count as offline
MinutesOfflineExceeds_AtLeast(now, last_seen) ==
    (now - fromisoformat(last_seen)) >= EvictMinutes * SecondsPerMinute * TicksPerSecond

\* (current_time - last_seen).total_seconds() / 60 > 10, without the division
MinutesOfflineExceeds(now, last_seen) ==
    (now - fromisoformat(last_seen)) > EvictMinutes * SecondsPerMinute * TicksPerSecond

TenMinutes == EvictMinutes * SecondsPerMinute * TicksPerSecond

----------------------------------------------------------------------------
(* Python dict and list helpers *)

Range(f) == {f[x] : x \in DOMAIN f}

\* dict.get(key, default) on a dict held as a function
Get(dict, key, default) == IF key \in DOMAIN dict THEN dict[key] ELSE default

\* dict[key] = value on a dict held as a function
Put(dict, key, value) == [k \in DOMAIN dict \cup {key} |-> IF k = key THEN value ELSE dict[k]]

\* list[:n]
Take(list, n) == SubSeq(list, 1, IF Len(list) < n THEN Len(list) ELSE n)

\* Ordered dict (device_statuses): keys in insertion order
Keys(odict) == [i \in 1..Len(odict) |-> odict[i].key]
KeySet(odict) == {odict[i].key : i \in 1..Len(odict)}
Lookup(odict, key) == odict[CHOOSE i \in 1..Len(odict) : odict[i].key = key].value

\* odict[key] = value: an existing key keeps its position, a new key goes last
Store(odict, key, value) ==
    IF key \in KeySet(odict)
    THEN [i \in 1..Len(odict) |-> IF odict[i].key = key
                                  THEN [key |-> key, value |-> value]
                                  ELSE odict[i]]
    ELSE Append(odict, [key |-> key, value |-> value])

\* del odict[key]
Delete(odict, key) ==
    LET Keep(e) == e.key # key IN SelectSeq(odict, Keep)

(* The entries table of a dict, which an iterator over the dict walks: a slot
   for each key inserted since the table was built, in insertion order
   (dk_entries), and the number of slots still free (dk_usable).  The slot of
   a deleted key stays, empty; inserting a new key into a table without a
   free slot builds a new table first, sized for the keys present, with their
   slots packed at the front. *)

NullEntry == ""
EmptyKeys == [dk_entries |-> <<>>, dk_usable |-> 0]

RECURSIVE PowerAbove(_, _)
\* The first of p, 2p, 4p, ... above m
PowerAbove(p, m) == IF p > m THEN p ELSE PowerAbove(2 * p, m)

\* The slots of a table built when the dict holds used keys: room for three
\* times the keys, in a power of two from DictMinSize on
KeysSize(used) ==
    LET minsize == used * DictGrowthRate
        m == (IF (minsize \div DictMinSize) % 2 = 1 THEN minsize
              ELSE minsize + DictMinSize) - 1
    IN  PowerAbove(DictMinSize, m)

\* The keys a table of size slots takes: two thirds of them
UsableFraction(size) == (2 * size) \div 3

\* The table of odict after odict[key] = value
EntriesStore(keys, odict, key) ==
    IF key \in KeySet(odict) THEN keys
    ELSE LET used == Len(odict)
             table == IF keys.dk_usable <= 0
                      THEN [dk_entries |-> Keys(odict),
                            dk_usable |-> UsableFraction(KeysSize(used)) - used]
                      ELSE keys
         IN  [dk_entries |-> Append(table.dk_entries, key),
              dk_usable |-> table.dk_usable - 1]

\* The table after del odict[key] for each key of removed
EntriesDelete(keys, removed) ==
    [keys EXCEPT !.dk_entries =
        [i \in 1..Len(keys.dk_entries) |->
            IF keys.dk_entries[i] \in removed THEN NullEntry ELSE keys.dk_entries[i]]]

----------------------------------------------------------------------------
(* List objects of command_queues *)

NoRef == <<>>
NoCommand == <<>>
NoDevice == ""

\* The references a request thread holds in its local variables
ThreadRefs ==
    (IF adder.ref = NoRef THEN {} ELSE {adder.ref})
    \cup (IF drainer.commands = NoRef THEN {} ELSE {drainer.commands})

\* [] evaluated for device_id: a reference no reachable list has
FreshRef(device_id, inuse) ==
    <<device_id, CHOOSE n \in 0..Cardinality(inuse) :
                     /\ <<device_id, n>> \notin inuse
                     /\ \A m \in 0..(n - 1) : <<device_id, m>> \in inuse>>

\* Garbage collection: only the lists in live stay
Collect(h, live) == [r \in DOMAIN h \cap live |-> h[r]]

\* What command_queues.get(device_id, []) holds
Queue(device_id) ==
    IF device_id \in DOMAIN command_queues THEN heap[command_queues[device_id]] ELSE <<>>

----------------------------------------------------------------------------
(* add_command, src/app.py:280-292, on Q = [queues, heap] *)

\* Mutant of ResetQueue: only the oldest command is taken off the queue
ResetQueue_PopOne(Q, device_id, inuse) ==
    LET r == FreshRef(device_id, inuse)
        old == IF device_id \in DOMAIN command_queues
               THEN heap[command_queues[device_id]] ELSE <<>>
    IN  [queues |-> Put(Q.queues, device_id, r),
         heap |-> Put(Q.heap, r, IF old = <<>> THEN <<>> ELSE Tail(old))]

\* lines 96 and 283: command_queues[device_id] = [], on Q = [queues, heap]
ResetQueue(Q, device_id, inuse) ==
    LET r == FreshRef(device_id, inuse)
    IN  [queues |-> Put(Q.queues, device_id, r), heap |-> Put(Q.heap, r, <<>>)]

\* Mutant of EnsureQueue: the queue of an unregistered device is started anew
EnsureQueue_Registered(Q, device_id, inuse) ==
    IF device_id \in DOMAIN Q.queues /\ \E i \in 1..Len(device_statuses) :
                                            device_statuses[i].key = device_id
    THEN Q
    ELSE ResetQueue(Q, device_id, inuse)

\* lines 282-283: if device_id not in command_queues: command_queues[device_id] = []
EnsureQueue(Q, device_id, inuse) ==
    IF device_id \in DOMAIN Q.queues
    THEN Q
    ELSE ResetQueue(Q, device_id, inuse)

\* lines 285-290: the command record; command_id is f"{action}_{int(now.timestamp())}"
NewCommand(action, params, now) ==
    [command_id |-> <<action, int_timestamp(now)>>,
     action     |-> action,
     parameters |-> params,
     timestamp  |-> isoformat(now)]

\* Mutant of AppendCommand: the command is inserted at the head
AppendCommand_AtHead(h, r, command) == [h EXCEPT ![r] = <<command>> \o @]

\* line 292: <list>.append(command)
AppendCommand(h, r, command) == [h EXCEPT ![r] = Append(@, command)]

add_command(Q, device_id, action, params, now, inuse) ==
    LET Q1 == EnsureQueue(Q, device_id, inuse)
    IN  [queues |-> Q1.queues,
         heap   |-> AppendCommand(Q1.heap, Q1.queues[device_id],
                                  NewCommand(action, params, now))]

----------------------------------------------------------------------------
(* cleanup_offline_devices, src/app.py:294-305 *)

RECURSIVE CleanupLoop(_, _, _)
\* lines 299-305: the loop over the snapshot list(device_statuses.items())
CleanupLoop(snapshot, statuses, now) ==
    IF snapshot = <<>>
    THEN statuses
    ELSE LET e == Head(snapshot)
         IN  CleanupLoop(Tail(snapshot),
                         IF MinutesOfflineExceeds(now, e.value.last_seen)
                         THEN Delete(statuses, e.key)
                         ELSE statuses,
                         now)

\* Mutant of cleanup_offline_devices: the query does not evict
cleanup_offline_devices_Skipped(statuses, now) == statuses

cleanup_offline_devices(statuses, now) == CleanupLoop(statuses, statuses, now)

----------------------------------------------------------------------------
(* JSON values a device reports *)

Dict(items) == [type |-> "dict", items |-> items]
Number(n) == [type |-> "int", value |-> n]
IsDict(v) == v.type = "dict"

EmptyReport == <<>>
FullReport ==
    [uptime_hours |-> 2, cpu_usage |-> 35,
     actions_today |-> Dict([tweets |-> 5]),
     next_scheduled |-> "09:00", content_version |-> "v2", twitter_logged_in |-> TRUE]
ReplyReport == [uptime_hours |-> 3, actions_today |-> Dict([replies |-> 2, retweets |-> 1])]
BadReport == [uptime_hours |-> 1, actions_today |-> Number(7)]

Reports == {EmptyReport, FullReport, ReplyReport, BadReport}

EmptyActivity == <<>>
TweetActivity ==
    [action |-> "tweet", success |-> TRUE, details |-> "posted",
     content_preview |-> <<"h", "i">>]

Activities == {EmptyActivity, TweetActivity}

RestartParams == {<<>>, [delay |-> 5]}

----------------------------------------------------------------------------
(* Arithmetic of get_analytics *)

RECURSIVE SumOver(_, _)
\* sum(mapping.values())
SumOver(f, keys) ==
    IF keys = {} THEN 0
    ELSE LET k == CHOOSE x \in keys : TRUE IN f[k] + SumOver(f, keys \ {k})

SumValues(items) == SumOver(items, DOMAIN items)

RECURSIVE Gcd(_, _)
Gcd(a, b) == IF b = 0 THEN a ELSE Gcd(b, a % b)

\* a / b of two non-negative numbers, b > 0, as a fraction in lowest terms
Fraction(a, b) == LET g == Gcd(a, b) IN <<a \div g, b \div g>>

\* Mutant of Ratio: the quotient is cut to a whole number
Ratio_Floor(a, b, scale) == IF b > 0 THEN <<(a * scale) \div b, 1>> ELSE <<0, 1>>

\* (a / b * scale) if b > 0 else 0
Ratio(a, b, scale) == IF b > 0 THEN Fraction(a * scale, b) ELSE <<0, 1>>

\* device_id.replace('bot_', '')
ReplaceBotPrefix(device_id) ==
    CASE device_id = "bot_1" -> "1"
      [] device_id = "bot_2" -> "2"
      [] device_id = "bot_3" -> "3"
      [] OTHER -> device_id

RECURSIVE InsertByActions(_, _)
\* One insertion of the stable sort by total_actions, descending
InsertByActions(sorted, detail) ==
    IF sorted = <<>> THEN <<detail>>
    ELSE IF Head(sorted).total_actions >= detail.total_actions
         THEN <<Head(sorted)>> \o InsertByActions(Tail(sorted), detail)
         ELSE <<detail>> \o sorted

RECURSIVE SortByActions(_)
\* device_details.sort(key=lambda x: x['total_actions'], reverse=True), line 216
SortByActions(details) ==
    IF details = <<>> THEN <<>>
    ELSE InsertByActions(SortByActions(SubSeq(details, 1, Len(details) - 1)),
                         details[Len(details)])

----------------------------------------------------------------------------
(* get_analytics, src/app.py:173-244, on the registry left by the cleanup *)

\* lines 186-188 raise AttributeError on an actions_today that has no .get
AnalyticsRaises(devices) ==
    \E i \in 1..Len(devices) : ~IsDict(devices[i].value.actions_today)

RECURSIVE SumSeq(_)
\* lines 184-190: one accumulator of the loop, over its summands in order
SumSeq(summands) ==
    IF summands = <<>> THEN 0 ELSE Head(summands) + SumSeq(Tail(summands))

\* lines 199-213
DeviceDetail(e) ==
    [id            |-> e.key,
     name          |-> ReplaceBotPrefix(e.key),
     status        |-> e.value.status,
     uptime_hours  |-> e.value.uptime_hours,
     actions_today |-> e.value.actions_today,
     total_actions |-> IF IsDict(e.value.actions_today)
                       THEN SumValues(e.value.actions_today.items) ELSE 0,
     last_activity |-> e.value.last_activity,
     cpu_usage     |-> e.value.cpu_usage,
     memory_usage  |-> 0]

AnalyticsData(devices) ==
    LET Online(d)  == IF d.status = "online" THEN 1 ELSE 0
        Tweets(d)  == Get(d.actions_today.items, "tweets", 0)
        Replies(d) == Get(d.actions_today.items, "replies", 0)
        Retweets(d) == Get(d.actions_today.items, "retweets", 0)
        Actions(d) == IF IsDict(d.actions_today) THEN SumValues(d.actions_today.items) ELSE 0
        Uptime(d)  == d.uptime_hours
        total_devices  == Len(devices)
        online_devices == SumSeq([i \in 1..Len(devices) |-> Online(devices[i].value)])
        total_tweets   == SumSeq([i \in 1..Len(devices) |-> Tweets(devices[i].value)])
        total_replies  == SumSeq([i \in 1..Len(devices) |-> Replies(devices[i].value)])
        total_retweets == SumSeq([i \in 1..Len(devices) |-> Retweets(devices[i].value)])
        total_actions  == SumSeq([i \in 1..Len(devices) |-> Actions(devices[i].value)])
        total_uptime   == SumSeq([i \in 1..Len(devices) |-> Uptime(devices[i].value)])
        device_details == SortByActions([i \in 1..Len(devices) |-> DeviceDetail(devices[i])])
    IN  [fleet_overview |->
            [total_devices |-> total_devices,
             online_devices |-> online_devices,
             offline_devices |-> total_devices - online_devices,
             total_uptime_hours |-> total_uptime,
             average_uptime_hours |-> Ratio(total_uptime, total_devices, 1)],
         action_breakdown |->
            [total_actions |-> total_actions,
             tweets |-> total_tweets,
             replies |-> total_replies,
             retweets |-> total_retweets,
             tweet_percentage |-> Ratio(total_tweets, total_actions, 100),
             reply_percentage |-> Ratio(total_replies, total_actions, 100),
             retweet_percentage |-> Ratio(total_retweets, total_actions, 100)],
         device_details |-> device_details,
         performance_metrics |->
            [avg_actions_per_device |-> Ratio(total_actions, total_devices, 1),
             uptime_percentage |-> Ratio(online_devices, total_devices, 100),
             action_efficiency |-> Ratio(total_actions, total_uptime, 1),
             device_health_score |-> Ratio(online_devices, total_devices, 100)],
         top_performers |-> Take(device_details, TopCount)]

----------------------------------------------------------------------------
(* Initial state: the module-level storage of src/app.py:24-26 *)

IdleAdder == [pc |-> "idle", device_id |-> NoDevice, command |-> NoCommand, ref |-> NoRef]
IdleDrainer == [pc |-> "idle", device_id |-> NoDevice, commands |-> NoRef]
NoResponse == [code |-> 0]
NotEvicted == [was |-> FALSE, log |-> <<>>, queue |-> <<>>]
IdleWalker ==
    [pc |-> "idle", used |-> 0, len |-> 0, pos |-> 0, stopped_devices |-> <<>>,
     snapshot |-> <<>>, response |-> NoResponse]

Init ==
    /\ clock = 0
    /\ device_statuses = <<>>
    /\ ma_keys = EmptyKeys
    /\ command_queues = <<>>
    /\ recent_activities = <<>>
    /\ heap = <<>>
    /\ adder = IdleAdder
    /\ drainer = IdleDrainer
    /\ sent = [d \in Devices |-> 0]
    /\ received = [d \in Devices |-> 0]
    /\ walker = IdleWalker
    /\ evicted = [d \in Devices |-> NotEvicted]

\* The lists reachable from command_queues or from a thread
LiveRefs == Range(command_queues) \cup ThreadRefs

----------------------------------------------------------------------------
(* Device endpoints, each request handled atomically *)

\* Mutant of LastActivity: the oldest entry of the log is read
LastActivity_Oldest(device_id) ==
    IF device_id \in DOMAIN recent_activities /\ recent_activities[device_id] # <<>>
    THEN recent_activities[device_id][Len(recent_activities[device_id])].timestamp
    ELSE Never

\* Mutant of LastActivity: the timestamp is taken from the device's present
\* record, so that it is lost with the record
LastActivity_Registered(device_id) ==
    IF \E i \in 1..Len(device_statuses) : device_statuses[i].key = device_id
    THEN (CHOOSE e \in {device_statuses[i] : i \in 1..Len(device_statuses)} :
              e.key = device_id).value.last_activity
    ELSE Never

\* lines 36-39: the timestamp of the newest logged activity, or "Never"
LastActivity(device_id) ==
    IF device_id \in DOMAIN recent_activities /\ recent_activities[device_id] # <<>>
    THEN recent_activities[device_id][1].timestamp
    ELSE Never

\* Mutant of StatusRecord: the status is taken from the report
StatusRecord_Reported(data, last_activity, now) ==
    [status            |-> Get(data, "status", "offline"),
     last_seen         |-> isoformat(now),
     uptime_hours      |-> Get(data, "uptime_hours", 0),
     cpu_usage         |-> Get(data, "cpu_usage", 0),
     actions_today     |-> Get(data, "actions_today", Dict(<<>>)),
     next_scheduled    |-> Get(data, "next_scheduled", "null"),
     content_version   |-> Get(data, "content_version", "unknown"),
     twitter_logged_in |-> Get(data, "twitter_logged_in", FALSE),
     last_activity     |-> last_activity]

\* Mutant of StatusRecord: a device that is not logged in is recorded offline
StatusRecord_LoggedIn(data, last_activity, now) ==
    [status            |-> IF Get(data, "twitter_logged_in", FALSE)
                           THEN "online" ELSE "offline",
     last_seen         |-> isoformat(now),
     uptime_hours      |-> Get(data, "uptime_hours", 0),
     cpu_usage         |-> Get(data, "cpu_usage", 0),
     actions_today     |-> Get(data, "actions_today", Dict(<<>>)),
     next_scheduled    |-> Get(data, "next_scheduled", "null"),
     content_version   |-> Get(data, "content_version", "unknown"),
     twitter_logged_in |-> Get(data, "twitter_logged_in", FALSE),
     last_activity     |-> last_activity]

\* lines 41-51
StatusRecord(data, last_activity, now) ==
    [status            |-> "online",
     last_seen         |-> isoformat(now),
     uptime_hours      |-> Get(data, "uptime_hours", 0),
     cpu_usage         |-> Get(data, "cpu_usage", 0),
     actions_today     |-> Get(data, "actions_today", Dict(<<>>)),
     next_scheduled    |-> Get(data, "next_scheduled", "null"),
     content_version   |-> Get(data, "content_version", "unknown"),
     twitter_logged_in |-> Get(data, "twitter_logged_in", FALSE),
     last_activity     |-> last_activity]

\* POST /api/device/<device_id>/heartbeat, src/app.py:30-58
device_heartbeat(device_id, data) ==
    /\ UNCHANGED <<clock, command_queues, recent_activities, heap, threads>>
    /\ device_statuses' = Store(device_statuses, device_id,
                                StatusRecord(data, LastActivity(device_id), clock))
    /\ ma_keys' = EntriesStore(ma_keys, device_statuses, device_id)

\* line 54: what the heartbeat returns
heartbeat_response(device_id) == [code |-> 200, success |-> TRUE, timestamp |-> isoformat(clock)]

\* lines 69-75
ActivityEntry(activity, now) ==
    [timestamp       |-> isoformat(now),
     action          |-> Get(activity, "action", "unknown"),
     success         |-> Get(activity, "success", FALSE),
     details         |-> Get(activity, "details", ""),
     content_preview |-> Take(Get(activity, "content_preview", <<>>), PreviewCap)]

\* Mutant of LogInsert: the log is not cut
LogInsert_Uncut(log, entry) == <<entry>> \o log

\* lines 66-78: insert at the front, keep the first 50
LogInsert(log, entry) == Take(<<entry>> \o log, LogCap)

\* Mutant of log_device_activity: an activity registers its device
log_device_activity_Registers(device_id, activity) ==
    LET entry == ActivityEntry(activity, clock)
    IN  /\ recent_activities' =
              Put(recent_activities, device_id,
                  LogInsert(Get(recent_activities, device_id, <<>>), entry))
        /\ device_statuses' =
              Store(device_statuses, device_id,
                    IF device_id \in KeySet(device_statuses)
                    THEN [Lookup(device_statuses, device_id)
                              EXCEPT !.last_activity = entry.timestamp]
                    ELSE StatusRecord(EmptyReport, entry.timestamp, clock))
        /\ ma_keys' = EntriesStore(ma_keys, device_statuses, device_id)
        /\ UNCHANGED <<clock, command_queues, heap, threads>>

\* POST /api/device/<device_id>/activity, src/app.py:60-89
log_device_activity(device_id, activity) ==
    LET entry == ActivityEntry(activity, clock)
    IN  /\ recent_activities' =
              Put(recent_activities, device_id,
                  LogInsert(Get(recent_activities, device_id, <<>>), entry))
        /\ device_statuses' =
              IF device_id \in KeySet(device_statuses)
              THEN Store(device_statuses, device_id,
                         [Lookup(device_statuses, device_id)
                              EXCEPT !.last_activity = entry.timestamp])
              ELSE device_statuses
        /\ UNCHANGED <<clock, ma_keys, command_queues, heap, threads>>

\* GET /api/device/<device_id>/commands, src/app.py:91-105.  The drained list
\* is unreachable once the response is built, so its reference is free again.
get_pending_commands(device_id) ==
    LET others == (IF device_id \in DOMAIN command_queues
                   THEN LiveRefs \ {command_queues[device_id]} ELSE LiveRefs)
        Q == ResetQueue([queues |-> command_queues, heap |-> Collect(heap, others)],
                        device_id, others)
    IN  /\ command_queues' = Q.queues
        /\ heap' = Q.heap
        /\ UNCHANGED <<clock, device_statuses, ma_keys, recent_activities, threads>>

\* line 101: what the poll returns, read before the handler's own step
commands_response(device_id) ==
    [code |-> 200, commands |-> Queue(device_id), timestamp |-> isoformat(clock)]

----------------------------------------------------------------------------
(* Control room endpoints, each request handled atomically *)

StopParams == [reason |-> "Manual stop from Control Room"]
EmergencyParams == [priority |-> "critical"]

\* POST /api/control/stop/<device_id>, src/app.py:109-117
stop_device(device_id) ==
    LET Q == add_command([queues |-> command_queues, heap |-> heap], device_id,
                         "stop_bot", StopParams, clock, LiveRefs)
    IN  /\ command_queues' = Q.queues
        /\ heap' = Q.heap
        /\ UNCHANGED <<clock, device_statuses, ma_keys, recent_activities, threads>>

\* POST /api/control/restart/<device_id>, src/app.py:119-128
restart_device(device_id, params) ==
    LET Q == add_command([queues |-> command_queues, heap |-> heap], device_id,
                         "restart_bot", params, clock, LiveRefs)
    IN  /\ command_queues' = Q.queues
        /\ heap' = Q.heap
        /\ UNCHANGED <<clock, device_statuses, ma_keys, recent_activities, threads>>

RECURSIVE BroadcastLoop_SkipLast(_, _, _, _)
\* Mutant of BroadcastLoop: the last registered device is left out
BroadcastLoop_SkipLast(keys, Q, now, inuse) ==
    IF Len(keys) <= 1 THEN Q
    ELSE BroadcastLoop_SkipLast(Tail(keys),
                                add_command(Q, Head(keys), "emergency_stop",
                                            EmergencyParams, now, inuse),
                                now, inuse)

RECURSIVE BroadcastLoop(_, _, _, _)
\* lines 136-138: add_command for each key of device_statuses, in order
BroadcastLoop(keys, Q, now, inuse) ==
    IF keys = <<>> THEN Q
    ELSE BroadcastLoop(Tail(keys),
                       add_command(Q, Head(keys), "emergency_stop", EmergencyParams,
                                   now, inuse),
                       now, inuse)

\* Mutant of emergency_stop_all: the stale devices are evicted first
emergency_stop_all_EvictsFirst ==
    LET statuses == cleanup_offline_devices(device_statuses, clock)
        Q == BroadcastLoop(Keys(statuses), [queues |-> command_queues, heap |-> heap],
                           clock, LiveRefs)
    IN  /\ device_statuses' = statuses
        /\ ma_keys' = EntriesDelete(ma_keys, KeySet(device_statuses) \ KeySet(statuses))
        /\ command_queues' = Q.queues
        /\ heap' = Q.heap
        /\ UNCHANGED <<clock, recent_activities, threads>>

\* POST /api/control/emergency_stop_all, src/app.py:130-147
emergency_stop_all ==
    LET stopped_devices == Keys(device_statuses)
        Q == BroadcastLoop(stopped_devices, [queues |-> command_queues, heap |-> heap],
                           clock, LiveRefs)
    IN  /\ command_queues' = Q.queues
        /\ heap' = Q.heap
        /\ UNCHANGED <<clock, device_statuses, ma_keys, recent_activities, threads>>

\* lines 141-145: what the broadcast returns
emergency_stop_response ==
    [code |-> 200, success |-> TRUE,
     message |-> Len(Keys(device_statuses)),
     devices |-> Keys(device_statuses)]

----------------------------------------------------------------------------
(* Monitoring endpoints, each request handled atomically *)

\* line 162
OnlineCount(statuses) ==
    Cardinality({i \in 1..Len(statuses) : statuses[i].value.status = "online"})

\* GET /api/status/all, src/app.py:151-165
get_all_status ==
    LET statuses == cleanup_offline_devices(device_statuses, clock)
    IN  /\ device_statuses' = statuses
        /\ ma_keys' = EntriesDelete(ma_keys, KeySet(device_statuses) \ KeySet(statuses))
        /\ UNCHANGED <<clock, command_queues, recent_activities, heap, threads>>

\* lines 157-163: what the status query returns
status_response ==
    LET statuses == cleanup_offline_devices(device_statuses, clock)
    IN  [code |-> 200,
         timestamp |-> isoformat(clock),
         devices |-> statuses,
         recent_activities |-> recent_activities,
         total_devices |-> Len(statuses),
         online_devices |-> OnlineCount(statuses)]

\* GET /api/status/analytics, src/app.py:167-252
get_analytics ==
    LET statuses == cleanup_offline_devices(device_statuses, clock)
    IN  /\ device_statuses' = statuses
        /\ ma_keys' = EntriesDelete(ma_keys, KeySet(device_statuses) \ KeySet(statuses))
        /\ UNCHANGED <<clock, command_queues, recent_activities, heap, threads>>

\* lines 246-252: what the analytics query returns
analytics_response ==
    LET devices == cleanup_offline_devices(device_statuses, clock)
    IN  IF AnalyticsRaises(devices)
        THEN [code |-> 500, error |-> "AttributeError"]
        ELSE [code |-> 200, timestamp |-> isoformat(clock),
              analytics |-> AnalyticsData(devices)]

----------------------------------------------------------------------------
(* Informational endpoints *)

\* lines 263-270
Endpoints ==
    [device_heartbeat |-> "/api/device/<id>/heartbeat [POST]",
     device_commands  |-> "/api/device/<id>/commands [GET]",
     control_stop     |-> "/api/control/stop/<id> [POST]",
     emergency_stop   |-> "/api/control/emergency_stop_all [POST]",
     fleet_status     |-> "/api/status/all [GET]",
     analytics        |-> "/api/status/analytics [GET]"]

\* GET /, src/app.py:254-271: nothing is written
home == UNCHANGED vars

\* Mutant of home_response: the stale devices are not counted
home_response_Evicting ==
    [code |-> 200, service |-> "Central Bot API", version |-> "1.0.0",
     status |-> "running", timestamp |-> isoformat(clock),
     connected_devices |-> Len(cleanup_offline_devices(device_statuses, clock)),
     endpoints |-> Endpoints]

\* lines 257-271: what GET / returns
home_response ==
    [code |-> 200, service |-> "Central Bot API", version |-> "1.0.0",
     status |-> "running", timestamp |-> isoformat(clock),
     connected_devices |-> Len(device_statuses),
     endpoints |-> Endpoints]

\* GET /health, src/app.py:273-276: nothing is written
health_check == UNCHANGED vars

\* line 276: what GET /health returns
health_response == [code |-> 200, status |-> "healthy", timestamp |-> isoformat(clock)]

----------------------------------------------------------------------------
(* The clock *)

\* Time passes by one tick, once after each ten-minute mark
TickFine ==
    /\ clock % TenMinutes = 0
    /\ clock' = clock + 1
    /\ UNCHANGED <<storage, threads>>

\* Ten minutes pass
TickTenMinutes ==
    /\ clock + TenMinutes <= MaxEpochs * TenMinutes + 1
    /\ clock' = clock + TenMinutes
    /\ UNCHANGED <<storage, threads>>

----------------------------------------------------------------------------
(* The service with every request handled atomically *)

RECURSIVE SumLen(_, _)
\* The number of elements of the lists lists[k], k in keys
SumLen(lists, keys) ==
    IF keys = {} THEN 0
    ELSE LET k == CHOOSE x \in keys : TRUE
         IN  Len(lists[k]) + SumLen(lists, keys \ {k})

\* Commands waiting in all queues, entries held by all logs
QueuedTotal == SumLen(heap, Range(command_queues))
LoggedTotal == SumLen(recent_activities, DOMAIN recent_activities)

Pair == {"bot_1", "bot_2"}

Heartbeat == \E d \in Pair : device_heartbeat(d, EmptyReport)

Activity ==
    \E d \in Pair :
        /\ LoggedTotal < MaxLog
        /\ log_device_activity(d, TweetActivity)

Poll == \E d \in Pair : get_pending_commands(d)

Stop == \E d \in Pair : QueuedTotal < MaxPending /\ stop_device(d)

EmergencyStop ==
    /\ QueuedTotal + Len(device_statuses) <= MaxPending
    /\ emergency_stop_all

Next ==
    \/ Heartbeat
    \/ Activity
    \/ Poll
    \/ Stop
    \/ EmergencyStop
    \/ get_all_status
    \/ get_analytics
    \/ TickFine
    \/ TickTenMinutes

Spec == Init /\ [][Next]_vars

----------------------------------------------------------------------------
(* The fleet of three devices: heartbeats, eviction, broadcast and polls *)

FleetHeartbeat == \E d \in Devices : device_heartbeat(d, EmptyReport)

FleetPoll == \E d \in Devices : get_pending_commands(d)

FleetEmergencyStop ==
    /\ \A d \in KeySet(device_statuses) : Len(Queue(d)) < MaxBroadcast
    /\ emergency_stop_all

NextFleet ==
    \/ FleetHeartbeat
    \/ FleetPoll
    \/ FleetEmergencyStop
    \/ get_all_status
    \/ TickFine
    \/ TickTenMinutes

SpecFleet == Init /\ [][NextFleet]_vars

----------------------------------------------------------------------------
(* The command queues of two devices, filled up to MaxQueue *)

QueueHeartbeat == device_heartbeat("bot_1", EmptyReport)

QueuePoll == \E d \in Pair : get_pending_commands(d)

QueueStop == \E d \in Pair : Len(Queue(d)) < MaxQueue /\ stop_device(d)

QueueRestart ==
    \E d \in Pair, params \in RestartParams :
        Len(Queue(d)) < MaxQueue /\ restart_device(d, params)

QueueEmergencyStop ==
    /\ \A d \in KeySet(device_statuses) : Len(Queue(d)) < MaxQueue
    /\ emergency_stop_all

QueueTick ==
    /\ clock < 1
    /\ clock' = clock + 1
    /\ UNCHANGED <<storage, threads>>

NextQueue ==
    \/ QueueHeartbeat
    \/ QueuePoll
    \/ QueueStop
    \/ QueueRestart
    \/ QueueEmergencyStop
    \/ QueueTick

SpecQueue == Init /\ [][NextQueue]_vars

----------------------------------------------------------------------------
(* Analytics over three devices and every kind of report *)

AnalyticsHeartbeat == \E d \in Devices, data \in Reports : device_heartbeat(d, data)

NextAnalytics ==
    \/ AnalyticsHeartbeat
    \/ get_analytics
    \/ TickTenMinutes

SpecAnalytics == Init /\ [][NextAnalytics]_vars

----------------------------------------------------------------------------
(* One device that logs an activity at every tick, past the cap of the log *)

LogDevice == "bot_1"

LogActivity ==
    /\ LastActivity(LogDevice) # isoformat(clock)
    /\ log_device_activity(LogDevice, TweetActivity)

LogTick ==
    /\ LastActivity(LogDevice) = isoformat(clock)
    /\ clock < MaxLogTime
    /\ clock' = clock + 1
    /\ UNCHANGED <<storage, threads>>

LogHeartbeat == device_heartbeat(LogDevice, EmptyReport)

LogPoll == get_pending_commands(LogDevice)

NextLog ==
    \/ LogActivity
    \/ LogTick
    \/ LogHeartbeat
    \/ LogPoll
    \/ get_all_status

SpecLog == Init /\ [][NextLog]_vars

----------------------------------------------------------------------------
(* Two request threads on the same storage: stop_device with its add_command,
   and get_pending_commands, a step for each access to the shared dict or to
   a shared list *)

\* line 282: device_id not in command_queues
AdderCheck(device_id) ==
    /\ adder.pc = "idle"
    /\ sent[device_id] < MaxSent
    /\ adder' = [adder EXCEPT !.device_id = device_id,
                              !.pc = IF device_id \in DOMAIN command_queues
                                     THEN "build" ELSE "create"]
    /\ UNCHANGED <<clock, storage, drainer, sent, received, walker, evicted>>

\* line 283: command_queues[device_id] = []
AdderCreate ==
    /\ adder.pc = "create"
    /\ LET Q == ResetQueue([queues |-> command_queues, heap |-> heap],
                           adder.device_id, DOMAIN heap)
       IN  /\ command_queues' = Q.queues
           /\ heap' = Collect(Q.heap, Range(Q.queues) \cup ThreadRefs)
    /\ adder' = [adder EXCEPT !.pc = "build"]
    /\ UNCHANGED <<clock, device_statuses, ma_keys, recent_activities, drainer, sent, received, walker, evicted>>

\* lines 285-290: command = {...}
AdderBuild ==
    /\ adder.pc = "build"
    /\ adder' = [adder EXCEPT !.command = NewCommand("stop_bot", StopParams, clock),
                              !.pc = "load"]
    /\ UNCHANGED <<clock, storage, drainer, sent, received, walker, evicted>>

\* line 292, first half: command_queues[device_id] is looked up
AdderLoad ==
    /\ adder.pc = "load"
    /\ adder' = [adder EXCEPT !.ref = command_queues[adder.device_id],
                              !.pc = "append"]
    /\ UNCHANGED <<clock, storage, drainer, sent, received, walker, evicted>>

\* line 292, second half: .append(command) on that list; stop_device returns
AdderAppend ==
    /\ adder.pc = "append"
    /\ heap' = Collect(AppendCommand(heap, adder.ref, adder.command),
                       Range(command_queues)
                           \cup (IF drainer.commands = NoRef THEN {} ELSE {drainer.commands}))
    /\ sent' = [sent EXCEPT ![adder.device_id] = @ + 1]
    /\ adder' = IdleAdder
    /\ UNCHANGED <<clock, device_statuses, ma_keys, command_queues, recent_activities,
                   drainer, received, walker, evicted>>

\* line 95: commands = command_queues.get(device_id, [])
DrainerGet(device_id) ==
    /\ drainer.pc = "idle"
    /\ IF device_id \in DOMAIN command_queues
       THEN /\ drainer' = [pc |-> "reset", device_id |-> device_id,
                           commands |-> command_queues[device_id]]
            /\ heap' = heap
       ELSE LET r == FreshRef(device_id, DOMAIN heap)
            IN  /\ drainer' = [pc |-> "reset", device_id |-> device_id, commands |-> r]
                /\ heap' = Put(heap, r, <<>>)
    /\ UNCHANGED <<clock, device_statuses, ma_keys, command_queues, recent_activities,
                   adder, sent, received, walker, evicted>>

\* line 96: command_queues[device_id] = []
DrainerReset ==
    /\ drainer.pc = "reset"
    /\ LET Q == ResetQueue([queues |-> command_queues, heap |-> heap],
                           drainer.device_id, DOMAIN heap)
       IN  /\ command_queues' = Q.queues
           /\ heap' = Collect(Q.heap, Range(Q.queues) \cup ThreadRefs)
    /\ drainer' = [drainer EXCEPT !.pc = "respond"]
    /\ UNCHANGED <<clock, device_statuses, ma_keys, recent_activities, adder, sent, received, walker, evicted>>

\* line 101: jsonify reads the list commands; the device receives its content
DrainerRespond ==
    /\ drainer.pc = "respond"
    /\ received' = [received EXCEPT ![drainer.device_id] = @ + Len(heap[drainer.commands])]
    /\ heap' = Collect(heap, Range(command_queues)
                                \cup (IF adder.ref = NoRef THEN {} ELSE {adder.ref}))
    /\ drainer' = IdleDrainer
    /\ UNCHANGED <<clock, device_statuses, ma_keys, command_queues, recent_activities,
                   adder, sent, walker, evicted>>

NextConc ==
    \/ \E d \in Pair : AdderCheck(d)
    \/ AdderCreate
    \/ AdderBuild
    \/ AdderLoad
    \/ AdderAppend
    \/ \E d \in Pair : DrainerGet(d)
    \/ DrainerReset
    \/ DrainerRespond

SpecConc == Init /\ [][NextConc]_vars

----------------------------------------------------------------------------
(* One device that is sent commands before, while and after it is registered *)

PreDevice == "bot_1"

PreHeartbeat == device_heartbeat(PreDevice, EmptyReport)

PreStop == Len(Queue(PreDevice)) < MaxQueue /\ stop_device(PreDevice)

PreRestart ==
    \E params \in RestartParams :
        Len(Queue(PreDevice)) < MaxQueue /\ restart_device(PreDevice, params)

PrePoll == get_pending_commands(PreDevice)

NextPre ==
    \/ PreHeartbeat
    \/ PreStop
    \/ PreRestart
    \/ PrePoll
    \/ get_all_status
    \/ get_analytics
    \/ home
    \/ health_check
    \/ TickFine
    \/ TickTenMinutes

SpecPre == Init /\ [][NextPre]_vars

----------------------------------------------------------------------------
\* The two request threads when each device keeps polling and every request
\* that has started runs to its end
ConcFairness ==
    /\ \A d \in Pair : SF_vars(DrainerGet(d))
    /\ WF_vars(DrainerReset)
    /\ WF_vars(DrainerRespond)
    /\ WF_vars(AdderCreate)
    /\ WF_vars(AdderBuild)
    /\ WF_vars(AdderLoad)
    /\ WF_vars(AdderAppend)

SpecConcFair == SpecConc /\ ConcFairness

----------------------------------------------------------------------------
(* emergency_stop_all in the steps of its for loop (a request thread of its
   own), beside heartbeats, polls and status queries that are handled
   atomically, and the passing of time *)

\* line 134 and the start of the for of line 136: the iterator over
\* device_statuses.keys() notes the size of the dict (used), has that many
\* keys to yield (len), and stands before the first slot of the table (pos)
WalkerIter ==
    /\ walker.pc = "idle"
    /\ \A d \in KeySet(device_statuses) : Len(Queue(d)) < MaxBroadcast
    /\ walker' = [pc |-> "next", used |-> Len(device_statuses),
                  len |-> Len(device_statuses), pos |-> 0,
                  stopped_devices |-> <<>>, snapshot |-> Keys(device_statuses),
                  response |-> NoResponse]
    /\ UNCHANGED <<clock, storage, adder, drainer, sent, received, evicted>>

\* line 136, one next() of the iterator, and the body of the loop for the key
\* it yields.  RuntimeError ("dictionary changed size during iteration",
\* caught on lines 146-147) if the dict's size is not the size noted.
\* Otherwise the iterator goes on from its slot of the table, past the empty
\* slots: with no slot left the loop ends, lines 140-145; a key found when
\* every key counted at the start has been yielded is a RuntimeError too
\* ("dictionary keys changed during iteration"); otherwise the key is
\* yielded and lines 137-138 run for it.
WalkerNext ==
    /\ walker.pc = "next"
    /\ LET entries == ma_keys.dk_entries
           left == {i \in (walker.pos + 1)..Len(entries) : entries[i] # NullEntry}
       IN  IF Len(device_statuses) # walker.used
           THEN /\ walker' = [walker EXCEPT !.pc = "respond",
                                            !.response = [code |-> 500, error |-> "RuntimeError"]]
                /\ UNCHANGED storage
           ELSE IF left = {}
           THEN /\ walker' = [walker EXCEPT !.pc = "respond",
                                            !.response = [code |-> 200, success |-> TRUE,
                                                          message |-> Len(walker.stopped_devices),
                                                          devices |-> walker.stopped_devices]]
                /\ UNCHANGED storage
           ELSE IF walker.len = 0
           THEN /\ walker' = [walker EXCEPT !.pc = "respond",
                                            !.response = [code |-> 500, error |-> "RuntimeError"]]
                /\ UNCHANGED storage
           ELSE LET i == CHOOSE j \in left : \A k \in left : j <= k
                    device_id == entries[i]
                    Q == add_command([queues |-> command_queues, heap |-> heap], device_id,
                                     "emergency_stop", EmergencyParams, clock, LiveRefs)
                IN  /\ command_queues' = Q.queues
                    /\ heap' = Q.heap
                    /\ walker' = [walker EXCEPT !.pos = i, !.len = @ - 1,
                                                !.stopped_devices = Append(@, device_id)]
                    /\ UNCHANGED <<device_statuses, ma_keys, recent_activities>>
    /\ UNCHANGED <<clock, adder, drainer, sent, received, evicted>>

\* The response is sent and the request thread ends
WalkerRespond ==
    /\ walker.pc = "respond"
    /\ walker' = IdleWalker
    /\ UNCHANGED <<clock, storage, adder, drainer, sent, received, evicted>>

IterHeartbeat == \E d \in Devices : device_heartbeat(d, EmptyReport)

IterPoll == \E d \in Devices : get_pending_commands(d)

NextIter ==
    \/ WalkerIter
    \/ WalkerNext
    \/ WalkerRespond
    \/ IterHeartbeat
    \/ IterPoll
    \/ get_all_status
    \/ TickFine
    \/ TickTenMinutes

SpecIter == Init /\ [][NextIter]_vars

----------------------------------------------------------------------------
(* One device with its history, beside a device that only sends heartbeats:
   activities logged before, during and after an absence from the registry,
   commands queued meanwhile, and the status query remembering in evicted
   what it removes *)

\* evicted after a query that leaves statuses: a removed device is marked,
\* with the log and the queue it had at that moment
Remember(statuses) ==
    [d \in Devices |->
        IF d \in KeySet(device_statuses) \ KeySet(statuses)
        THEN [was |-> TRUE, log |-> Get(recent_activities, d, <<>>),
              queue |-> Queue(d)]
        ELSE evicted[d]]

HistDevice == "bot_1"

HistHeartbeat == \E d \in Pair : device_heartbeat(d, EmptyReport)

HistActivity ==
    /\ Len(Get(recent_activities, HistDevice, <<>>)) < MaxHistory
    /\ log_device_activity(HistDevice, TweetActivity)

HistStop == Len(Queue(HistDevice)) < MaxQueue /\ stop_device(HistDevice)

HistPoll == get_pending_commands(HistDevice)

\* GET /api/status/all, src/app.py:151-165, with the removed devices remembered
HistStatus ==
    LET statuses == cleanup_offline_devices(device_statuses, clock)
    IN  /\ device_statuses' = statuses
        /\ ma_keys' = EntriesDelete(ma_keys, KeySet(device_statuses) \ KeySet(statuses))
        /\ evicted' = Remember(statuses)
        /\ UNCHANGED <<clock, command_queues, recent_activities, heap, requests>>

NextHist ==
    \/ HistHeartbeat
    \/ HistActivity
    \/ HistStop
    \/ HistPoll
    \/ HistStatus
    \/ TickFine
    \/ TickTenMinutes

SpecHist == Init /\ [][NextHist]_vars

----------------------------------------------------------------------------
(* Properties: the command queues *)

IsPrefix(a, b) == Len(a) <= Len(b) /\ SubSeq(b, 1, Len(a)) = a

CommandActions == {"stop_bot", "restart_bot", "emergency_stop"}

\* C1: a poll of a device returns the whole of its queue and leaves the queue
\* empty, so that a second poll with no enqueue in between returns the empty
\* list; the poll touches no other device's queue.
C1_DrainOnce ==
    [][\A d \in Devices :
          get_pending_commands(d) =>
              /\ commands_response(d).commands = Queue(d)
              /\ Queue(d)' = <<>>
              /\ commands_response(d)'.commands = <<>>
              /\ \A e \in Devices \ {d} : Queue(e)' = Queue(e)]_vars

\* A queue that a poll has emptied, beside a queue filled to MaxQueue
C1_Witness ==
    \E d, e \in Pair :
        /\ d \in DOMAIN command_queues /\ Queue(d) = <<>>
        /\ Len(Queue(e)) = MaxQueue

\* C8: a queue changes only by one command appended at its tail or by a poll
\* of its device, which returns the queue in its order and empties it: a poll
\* returns the commands enqueued since the previous poll, oldest first.
C8_Fifo ==
    [][\A d \in Devices :
          \/ Queue(d)' = Queue(d)
          \/ /\ Len(Queue(d)') = Len(Queue(d)) + 1
             /\ IsPrefix(Queue(d), Queue(d)')
             /\ Queue(d)'[Len(Queue(d)')].action \in CommandActions
             /\ stop_device(d) \/ emergency_stop_all
                \/ \E params \in RestartParams : restart_device(d, params)
          \/ /\ get_pending_commands(d)
             /\ commands_response(d).commands = Queue(d)
             /\ Queue(d)' = <<>>]_vars

\* A queue holding a stop, then a restart issued later
C8_Witness ==
    \E d \in Pair :
        /\ Len(Queue(d)) = 2
        /\ Queue(d)[1].action = "stop_bot" /\ Queue(d)[2].action = "restart_bot"
        /\ fromisoformat(Queue(d)[1].timestamp) < fromisoformat(Queue(d)[2].timestamp)

----------------------------------------------------------------------------
(* Properties: the registry and its eviction *)

LastSeen(statuses, d) == fromisoformat(Lookup(statuses, d).last_seen)

\* The registered devices last seen strictly more than ten minutes before now
Stale(statuses, now) ==
    {d \in KeySet(statuses) : now - LastSeen(statuses, d) > TenMinutes}

Fresh(statuses, now) == KeySet(statuses) \ Stale(statuses, now)

Last(list) == list[Len(list)]

\* C3: a status or analytics query, and any step that removes a device from
\* the registry, removes exactly the devices last seen strictly more than ten
\* minutes ago, keeps the other entries as they were and in their order, and
\* leaves every activity log and every command queue unchanged.
C3_Evict ==
    [][LET removed == KeySet(device_statuses) \ KeySet(device_statuses')
           Kept(e) == e.key \notin Stale(device_statuses, clock)
       IN  (get_all_status \/ get_analytics \/ removed # {}) =>
               /\ removed = Stale(device_statuses, clock)
               /\ device_statuses' = SelectSeq(device_statuses, Kept)
               /\ UNCHANGED <<recent_activities, command_queues, heap>>]_vars

\* Before a query: one device seen exactly ten minutes ago, another seen
\* earlier that has a logged activity and a queued command
C3_Witness ==
    \E d, e \in KeySet(device_statuses) :
        /\ clock - LastSeen(device_statuses, d) = TenMinutes
        /\ clock - LastSeen(device_statuses, e) > TenMinutes
        /\ LastActivity(e) # Never
        /\ Queue(e) # <<>>

\* C6: a heartbeat of D leaves D registered, online, with last_seen not
\* before the call; no step removes a device seen at most ten minutes ago,
\* and the status query lists every such device as online.  The heartbeats
\* are those of Spec (a device of Pair, the empty report): StatusRecord takes
\* neither status nor last_seen from the report.
C6_Heartbeat ==
    /\ [][/\ \A d \in Pair :
             device_heartbeat(d, EmptyReport) =>
                 /\ d \in KeySet(device_statuses')
                 /\ Lookup(device_statuses', d).status = "online"
                 /\ LastSeen(device_statuses', d) >= clock
       /\ \A d \in Fresh(device_statuses, clock) : d \in KeySet(device_statuses')]_vars
    /\ [](LET listed == status_response.devices
          IN  \A d \in Fresh(device_statuses, clock) :
                  /\ d \in KeySet(listed)
                  /\ Lookup(listed, d).status = "online")

\* A device whose heartbeat arrived after the ten-minute mark passed, while
\* another registered device is stale
C6_Witness ==
    \E d, e \in KeySet(device_statuses) :
        /\ clock > TenMinutes
        /\ LastSeen(device_statuses, d) = clock
        /\ e \in Stale(device_statuses, clock)

\* C9: the status and the analytics responses list exactly the registered
\* devices seen at most ten minutes before the query, and count only those
\* in total_devices and online_devices.
C9_NoStaleListed ==
    LET fresh == Fresh(device_statuses, clock)
        online == {d \in fresh : Lookup(device_statuses, d).status = "online"}
        r == status_response
        a == analytics_response
    IN  /\ KeySet(r.devices) = fresh
        /\ r.total_devices = Cardinality(fresh)
        /\ r.online_devices = Cardinality(online)
        /\ a.code = 200 =>
              /\ {a.analytics.device_details[i].id :
                     i \in 1..Len(a.analytics.device_details)} = fresh
              /\ a.analytics.fleet_overview.total_devices = Cardinality(fresh)
              /\ a.analytics.fleet_overview.online_devices = Cardinality(online)

\* A query is made while a stale device and a fresh one are registered
C9_Witness ==
    /\ Stale(device_statuses, clock) # {}
    /\ Fresh(device_statuses, clock) # {}

----------------------------------------------------------------------------
(* Properties: the broadcast *)

\* C4: the broadcast appends one emergency_stop command to the queue of every
\* registered device and to no other queue, and reports exactly the
\* registered devices; a heartbeat changes no queue, so a device registering
\* afterwards has an empty queue.
C4_Broadcast ==
    [][/\ emergency_stop_all =>
             /\ \A d \in KeySet(device_statuses) :
                   /\ Len(Queue(d)') = Len(Queue(d)) + 1
                   /\ IsPrefix(Queue(d), Queue(d)')
                   /\ Last(Queue(d)').action = "emergency_stop"
                   /\ Last(Queue(d)').parameters = EmergencyParams
             /\ \A d \in Devices \ KeySet(device_statuses) :
                   /\ Queue(d)' = Queue(d)
                   /\ d \in DOMAIN command_queues' <=> d \in DOMAIN command_queues
             /\ Range(emergency_stop_response.devices) = KeySet(device_statuses)
             /\ Len(emergency_stop_response.devices) = Cardinality(KeySet(device_statuses))
             /\ emergency_stop_response.message = Cardinality(KeySet(device_statuses))
       /\ \A d \in Devices :
             device_heartbeat(d, EmptyReport) =>
                 \A e \in Devices : Queue(e)' = Queue(e)]_vars

\* Two devices hold the broadcast's command; the third, whose heartbeat came
\* later, has no queue
C4_Witness ==
    \E d \in KeySet(device_statuses) :
        /\ Cardinality(KeySet(device_statuses)) = 3
        /\ d \notin DOMAIN command_queues
        /\ \A e \in KeySet(device_statuses) \ {d} :
              /\ Queue(e) # <<>>
              /\ Last(Queue(e)).action = "emergency_stop"
              /\ fromisoformat(Last(Queue(e)).timestamp) < LastSeen(device_statuses, d)

\* C5, as claimed: the commands one broadcast enqueues carry pairwise distinct
\* command_ids, each made of the action name and the whole seconds of the
\* clock.
C5_DistinctIds ==
    [][emergency_stop_all =>
          \A d, e \in KeySet(device_statuses) :
              /\ Last(Queue(d)').command_id = <<"emergency_stop", int_timestamp(clock)>>
              /\ d # e => Last(Queue(d)').command_id # Last(Queue(e)').command_id]_vars

----------------------------------------------------------------------------
(* Properties: analytics *)

\* The registered devices, after eviction, whose actions_today is a mapping
WellFormed ==
    LET devices == cleanup_offline_devices(device_statuses, clock)
        Mapping(e) == IsDict(e.value.actions_today)
    IN  SelectSeq(devices, Mapping)

\* C10, as claimed: the analytics query succeeds whatever actions_today the
\* devices reported, and its sums are those of the devices whose actions_today
\* is a mapping, the others contributing 0.
C10_Tolerant ==
    LET a == analytics_response
        Count(kind) == SumSeq([i \in 1..Len(WellFormed) |->
                                  Get(WellFormed[i].value.actions_today.items, kind, 0)])
        Total == SumSeq([i \in 1..Len(WellFormed) |->
                            SumValues(WellFormed[i].value.actions_today.items)])
    IN  /\ a.code = 200
        /\ a.analytics.action_breakdown.tweets = Count("tweets")
        /\ a.analytics.action_breakdown.replies = Count("replies")
        /\ a.analytics.action_breakdown.retweets = Count("retweets")
        /\ a.analytics.action_breakdown.total_actions = Total

----------------------------------------------------------------------------
(* Properties: the activity log *)

\* C7: every log holds at most 50 entries, newest first; a log changes only
\* by an activity report of its device, which puts the new entry first and
\* keeps behind it the former entries in their order, without the oldest one
\* when the log was full.
C7_LogCapped ==
    [][\A d \in Devices :
          LET before == Get(recent_activities, d, <<>>)
              after == Get(recent_activities', d, <<>>)
          IN  /\ Len(after) <= LogCap
              /\ \A i, j \in 1..Len(after) :
                    i < j => fromisoformat(after[i].timestamp)
                                 >= fromisoformat(after[j].timestamp)
              /\ \/ after = before
                 \/ /\ \E activity \in Activities : log_device_activity(d, activity)
                    /\ after[1].timestamp = isoformat(clock)
                    /\ Tail(after) = IF Len(before) = LogCap
                                     THEN SubSeq(before, 1, LogCap - 1)
                                     ELSE before]_vars

\* A full log whose first entry, logged at tick 0, has been dropped
C7_Witness ==
    /\ Len(Get(recent_activities, LogDevice, <<>>)) = LogCap
    /\ fromisoformat(recent_activities[LogDevice][LogCap].timestamp) > 0
    /\ fromisoformat(recent_activities[LogDevice][1].timestamp) = clock

----------------------------------------------------------------------------
(* Properties: a poll concurrent with an enqueue *)

\* C2, as claimed: whatever the interleaving of add_command and
\* get_pending_commands, once both requests have returned every command
\* enqueued for a device has been returned by a poll or waits in the queue
\* for the next poll: never both, never neither.
C2_ExactlyOnce ==
    (adder.pc = "idle" /\ drainer.pc = "idle") =>
        \A d \in Devices : received[d] + Len(Queue(d)) = sent[d]

----------------------------------------------------------------------------
(* Properties: the sums and ratios of the analytics *)

\* r is num / den * scale, or 0 when den is 0
IsQuotient(r, num, den, scale) ==
    IF den = 0 THEN r = <<0, 1>>
    ELSE r[2] > 0 /\ r[1] * den = num * scale * r[2]

\* C11: when every registered device's actions_today is a mapping, the
\* analytics query succeeds; total_actions is the sum of all action counts of
\* the registered devices, tweets/replies/retweets are the per-category sums,
\* and every derived ratio is its numerator divided by its denominator, or 0
\* when the denominator is 0.
C11_Sums ==
    LET reg == cleanup_offline_devices(device_statuses, clock)
        keys == KeySet(reg)
        Actions(d) == Lookup(reg, d).actions_today.items
        Category(kind) == SumOver([d \in keys |-> Get(Actions(d), kind, 0)], keys)
        All == SumOver([d \in keys |-> SumValues(Actions(d))], keys)
        Uptime == SumOver([d \in keys |-> Lookup(reg, d).uptime_hours], keys)
        N == Cardinality(keys)
        a == analytics_response
        b == a.analytics.action_breakdown
        f == a.analytics.fleet_overview
        m == a.analytics.performance_metrics
    IN  (\A d \in keys : IsDict(Lookup(reg, d).actions_today)) =>
            /\ a.code = 200
            /\ b.total_actions = All
            /\ b.tweets = Category("tweets")
            /\ b.replies = Category("replies")
            /\ b.retweets = Category("retweets")
            /\ IsQuotient(b.tweet_percentage, b.tweets, All, 100)
            /\ IsQuotient(b.reply_percentage, b.replies, All, 100)
            /\ IsQuotient(b.retweet_percentage, b.retweets, All, 100)
            /\ f.total_devices = N
            /\ f.total_uptime_hours = Uptime
            /\ IsQuotient(f.average_uptime_hours, Uptime, N, 1)
            /\ IsQuotient(m.avg_actions_per_device, All, N, 1)
            /\ IsQuotient(m.action_efficiency, All, Uptime, 1)
            /\ IsQuotient(m.uptime_percentage, f.online_devices, N, 100)
            /\ IsQuotient(m.device_health_score, f.online_devices, N, 100)

\* Three registered devices reporting {tweets: 5}, {replies: 2, retweets: 1}
\* and {}: total_actions is 8 and tweet_percentage is 62.5
C11_Witness ==
    LET reg == cleanup_offline_devices(device_statuses, clock)
        b == analytics_response.analytics.action_breakdown
    IN  /\ Len(reg) = 3
        /\ {reg[i].value.actions_today : i \in 1..3} =
               {Dict([tweets |-> 5]), Dict([replies |-> 2, retweets |-> 1]), Dict(<<>>)}
        /\ b.total_actions = 8
        /\ b.tweet_percentage = <<125, 2>>

----------------------------------------------------------------------------
(* Properties: commands queued for a device that is not registered *)

\* C12: a stop or a restart for a device that has no entry in the registry
\* adds the command to the device's queue and creates no registry entry; no
\* step but the device's own poll takes a command off its queue, whatever
\* heartbeats, queries and evictions happen; the poll returns them all.
C12_PreQueue ==
    [][\A d \in Devices :
          /\ (d \notin KeySet(device_statuses)
                  /\ (stop_device(d) \/ \E p \in RestartParams : restart_device(d, p))) =>
                 /\ device_statuses' = device_statuses
                 /\ Len(Queue(d)') = Len(Queue(d)) + 1
                 /\ IsPrefix(Queue(d), Queue(d)')
          /\ IF get_pending_commands(d)
             THEN commands_response(d).commands = Queue(d) /\ Queue(d)' = <<>>
             ELSE IsPrefix(Queue(d), Queue(d)')]_vars

\* An unregistered device, after an eviction time has passed, whose queue
\* holds two commands of which the first is older than ten minutes
C12_Witness ==
    /\ PreDevice \notin KeySet(device_statuses)
    /\ Len(Queue(PreDevice)) = 2
    /\ clock - fromisoformat(Queue(PreDevice)[1].timestamp) > TenMinutes

----------------------------------------------------------------------------
(* Properties: a broadcast concurrent with heartbeats *)

\* C13, as claimed: a broadcast that runs while heartbeats register devices
\* completes without error and has sent its command to exactly the devices
\* that were registered when it started to iterate.
C13_Snapshot ==
    walker.pc = "respond" =>
        /\ walker.response.code = 200
        /\ walker.stopped_devices = walker.snapshot

----------------------------------------------------------------------------
(* Properties: delivery of the commands to a device that keeps polling *)

\* C14, as claimed: when a device keeps polling, every command for which
\* stop_device has returned is eventually returned to the device by a poll.
C14_Delivered ==
    \A d \in Pair : \A n \in 1..MaxSent :
        (sent[d] >= n) ~> (received[d] >= n)

----------------------------------------------------------------------------
(* Properties: the informational endpoints *)

\* A response without its timestamp
Untimed(response) == [response EXCEPT !.timestamp = Never]

\* C15, as claimed: apart from the timestamp, the responses of GET / and of
\* GET /health are the same before and after every step.
C15_NoStateAccess ==
    [][/\ Untimed(health_response)' = Untimed(health_response)
       /\ Untimed(home_response)' = Untimed(home_response)]_vars

\* C15, amended: GET /health is the same in every state apart from its
\* timestamp; GET / is the same apart from its timestamp and from
\* connected_devices, which is the number of entries the registry holds at
\* that moment, stale ones included (GET / evicts nothing).
C15_StaticButCount ==
    [][/\ Untimed(health_response)' = Untimed(health_response)
       /\ [Untimed(home_response)' EXCEPT !.connected_devices = 0] =
              [Untimed(home_response) EXCEPT !.connected_devices = 0]
       /\ home_response'.connected_devices = Cardinality(KeySet(device_statuses'))
       /\ (home \/ health_check) => UNCHANGED vars]_vars

\* GET / counts a device that the status query no longer lists
C15_Witness ==
    /\ home_response.connected_devices = 1
    /\ status_response.total_devices = 0

----------------------------------------------------------------------------
(* Properties: what writes the registry *)

\* C16: an entry of the registry appears only by a heartbeat of its device
\* and disappears only by a query that finds it stale; the record of a device
\* that stays changes only by its heartbeat (the whole record) or by its
\* activity (last_activity alone); an activity of an unregistered device, a
\* poll, a stop, a restart and a broadcast leave the registry as it is.
C16_Frame ==
    [][LET before == KeySet(device_statuses)
           after == KeySet(device_statuses')
           Beat(d) == \E data \in Reports : device_heartbeat(d, data)
           Logged(d) == \E activity \in Activities : log_device_activity(d, activity)
       IN  /\ device_statuses' # device_statuses =>
                 /\ \A d \in after \ before : Beat(d)
                 /\ \A d \in before \ after :
                       /\ d \in Stale(device_statuses, clock)
                       /\ get_all_status \/ get_analytics
                 /\ \A d \in before \cap after :
                       Lookup(device_statuses', d) # Lookup(device_statuses, d) =>
                           \/ Beat(d)
                           \/ /\ Logged(d)
                              /\ [Lookup(device_statuses', d) EXCEPT !.last_activity = Never]
                                 = [Lookup(device_statuses, d) EXCEPT !.last_activity = Never]
                 /\ (get_all_status \/ get_analytics) =>
                       \A d \in before \cap after :
                           Lookup(device_statuses', d) = Lookup(device_statuses, d)
           /\ (command_queues' # command_queues \/ heap' # heap) =>
                 device_statuses' = device_statuses
           /\ \A d \in Devices \ before :
                 recent_activities' # recent_activities => d \notin after]_vars

\* A device that has logged an activity without being registered, beside a
\* registered device
C16_Witness ==
    \E d \in KeySet(device_statuses) :
        \E e \in DOMAIN recent_activities \ KeySet(device_statuses) :
            recent_activities[e] # <<>> /\ d # e

----------------------------------------------------------------------------
(* Properties: what an eviction leaves behind *)

\* C17, as claimed: a heartbeat of a device that was evicted with a log
\* creates a record whose last_activity is the timestamp of the device's most
\* recent activity before the eviction; the log still holds the entries it
\* held at the eviction, and the poll returns the commands queued meanwhile.
C17_PreEviction ==
    [][\A d \in Devices :
          LET was == d \in KeySet(device_statuses)
              is == d \in KeySet(device_statuses')
              log == Get(recent_activities', d, <<>>)
              gone == evicted[d]
          IN  (~was /\ is /\ gone.was /\ gone.log # <<>>) =>
                  /\ Lookup(device_statuses', d).last_activity = gone.log[1].timestamp
                  /\ \E k \in 0..Len(log) : log = SubSeq(log, 1, k) \o gone.log
                  /\ commands_response(d)'.commands = Queue(d)]_vars

\* C17, amended: a step that removes a device from the registry leaves the
\* device's log and queue as they are, the removed record's last_activity
\* being the timestamp of the newest entry of the log.  A heartbeat of a
\* device that was evicted leaves the log and the queue as they are, so that
\* the next poll returns all the commands queued before and during the
\* absence (while the device is absent a step either empties its queue, as
\* its poll does, or keeps the commands queued and may add one at the tail,
\* and either keeps its log or puts one entry in front of it); the log holds
\* the entries logged during the absence in front of
\* those it held at the eviction (cut to the cap of the log); the new
\* record's last_activity is the timestamp of the newest entry of the log:
\* the most recent activity before the eviction if the device logged nothing
\* while it was absent, the most recent activity of the absence otherwise.
C17_History ==
    [][\A d \in Devices :
          LET was == d \in KeySet(device_statuses)
              is == d \in KeySet(device_statuses')
              log == Get(recent_activities, d, <<>>)
              gone == evicted[d]
          IN  /\ (was /\ ~is) =>
                    /\ Get(recent_activities', d, <<>>) = log
                    /\ Queue(d)' = Queue(d)
                    /\ evicted'[d] = [was |-> TRUE, log |-> log, queue |-> Queue(d)]
                    /\ log # <<>> =>
                           Lookup(device_statuses, d).last_activity = log[1].timestamp
              /\ (~was /\ ~is /\ gone.was) =>
                    /\ Get(recent_activities', d, <<>>) = log
                          \/ Get(recent_activities', d, <<>>)
                                 = Take(<<Get(recent_activities', d, <<>>)[1]>> \o log, LogCap)
                    /\ Queue(d)' = <<>> \/ IsPrefix(Queue(d), Queue(d)')
              /\ (~was /\ is /\ gone.was) =>
                    /\ Get(recent_activities', d, <<>>) = log
                    /\ Queue(d)' = Queue(d)
                    /\ commands_response(d)'.commands = Queue(d)
                    /\ \E k \in 0..Len(log) :
                          log = Take(SubSeq(log, 1, k) \o gone.log, LogCap)
                    /\ Lookup(device_statuses', d).last_activity =
                           IF log = <<>> THEN Never ELSE log[1].timestamp
                    /\ (log = gone.log /\ log # <<>>) =>
                           /\ Lookup(device_statuses', d).last_activity
                                  = gone.log[1].timestamp
                           /\ Lookup(device_statuses', d).last_activity # Never
                    /\ Len(log) > Len(gone.log) =>
                           Lookup(device_statuses', d).last_activity
                               = log[1].timestamp]_vars

\* A device that logged two activities at different times, was evicted with
\* that log, and is registered again with the same log, its last_activity
\* that of the newer of the two, and with two commands waiting in its queue,
\* one queued before the eviction and one while it was absent, both returned
\* by a poll now
C17_Witness ==
    \E d \in KeySet(device_statuses) :
        /\ evicted[d].was
        /\ Len(evicted[d].log) = 2
        /\ evicted[d].log[1].timestamp # evicted[d].log[2].timestamp
        /\ recent_activities[d] = evicted[d].log
        /\ Lookup(device_statuses, d).last_activity = evicted[d].log[1].timestamp
        /\ Len(evicted[d].queue) = 1
        /\ Len(Queue(d)) = 2
        /\ IsPrefix(evicted[d].queue, Queue(d))
        /\ commands_response(d).commands = Queue(d)

----------------------------------------------------------------------------
(* Properties: no offline state is kept *)

\* C18: every record of the registry has status "online"; the status query
\* reports online_devices = total_devices, and an analytics report has
\* online_devices = total_devices, offline_devices = 0, and
\* uptime_percentage and device_health_score at 100 when a device is listed
\* and at 0 when none is.
C18_AllOnline ==
    LET r == status_response
        a == analytics_response
        f == a.analytics.fleet_overview
        m == a.analytics.performance_metrics
        score == IF f.total_devices > 0 THEN <<100, 1>> ELSE <<0, 1>>
    IN  /\ \A i \in 1..Len(device_statuses) : device_statuses[i].value.status = "online"
        /\ r.online_devices = r.total_devices
        /\ a.code = 200 =>
              /\ f.online_devices = f.total_devices
              /\ f.offline_devices = 0
              /\ m.uptime_percentage = score
              /\ m.device_health_score = score
              /\ \A i \in 1..Len(a.analytics.device_details) :
                    a.analytics.device_details[i].status = "online"

\* Three registered devices, two of which never said they were logged in,
\* and an analytics report with a health score of 100
C18_Witness ==
    /\ Len(device_statuses) = 3
    /\ Cardinality({i \in 1..3 : ~device_statuses[i].value.twitter_logged_in}) = 2
    /\ analytics_response.code = 200
    /\ analytics_response.analytics.performance_metrics.device_health_score = <<100, 1>>
    /\ status_response.online_devices = 3

----------------------------------------------------------------------------
(* Properties: last_activity and the activity log *)

\* C19: with each request handled atomically, every registered device has as
\* last_activity the timestamp of entry 0 of its activity log, or "Never" if
\* its log has no entry.
C19_LastActivity ==
    \A i \in 1..Len(device_statuses) :
        LET d == device_statuses[i].key
            log == IF d \in DOMAIN recent_activities THEN recent_activities[d] ELSE <<>>
        IN  device_statuses[i].value.last_activity =
                IF log = <<>> THEN Never ELSE Head(log).timestamp

\* A registered device whose log holds two entries of different times, the
\* newer one logged after its last heartbeat, beside a registered device that
\* never logged
C19_Witness ==
    \E d, e \in KeySet(device_statuses) :
        /\ Len(Get(recent_activities, d, <<>>)) = 2
        /\ recent_activities[d][1].timestamp # recent_activities[d][2].timestamp
        /\ Lookup(device_statuses, d).last_activity = recent_activities[d][1].timestamp
        /\ fromisoformat(recent_activities[d][1].timestamp) > LastSeen(device_statuses, d)
        /\ Lookup(device_statuses, e).last_activity = Never

----------------------------------------------------------------------------
(* Properties: a broadcast over a registry that holds stale devices *)

\* C20: only the status and the analytics queries remove a device; the
\* broadcast removes none, so a device last seen more than ten minutes ago
\* that is still in the registry is listed by the broadcast and gets the
\* emergency_stop command at the tail of its queue; the step that removes a
\* device later leaves its queue as it is.
C20_StaleTargeted ==
    [][/\ KeySet(device_statuses) \ KeySet(device_statuses') # {} =>
             /\ get_all_status \/ get_analytics
             /\ \A d \in KeySet(device_statuses) \ KeySet(device_statuses') :
                   Queue(d)' = Queue(d)
       /\ emergency_stop_all =>
             /\ device_statuses' = device_statuses
             /\ \A d \in Stale(device_statuses, clock) :
                   /\ d \in Range(emergency_stop_response.devices)
                   /\ Queue(d)' = Append(Queue(d),
                                         NewCommand("emergency_stop", EmergencyParams, clock))]_vars

\* A device that is no longer registered and whose queue ends with the
\* command of a broadcast made at the present time, after the ten minutes:
\* the device was stale when the broadcast reached it and was evicted after
C20_Witness ==
    \E d \in Devices \ KeySet(device_statuses) :
        /\ clock > TenMinutes
        /\ Queue(d) # <<>>
        /\ Last(Queue(d)).action = "emergency_stop"
        /\ Last(Queue(d)).timestamp = isoformat(clock)

====
